---- MODULE Spec2Model ----
(***************************************************************************)
(* A model of the LC-3 virtual machine of src/src/main.rs: the register    *)
(* file REG, the memory ALLMEMORY with its memory-mapped keyboard, the     *)
(* run loop of main (fetch, then one handler per opcode) and the trap      *)
(* routines.  Words are 16-bit unsigned (u16).  A u16 addition written     *)
(* with + or += aborts the program when it overflows in a build with       *)
(* overflow checks and wraps in a build without them.  Line 6 declares     *)
(* ALLMEMORY as a `const` item: every use of it is a fresh zeroed array,   *)
(* so a store to it is lost and a read of it gives 0; a build that makes   *)
(* it a `static mut` has a memory that keeps what is stored.  Line 24      *)
(* declares REG the same way.  These build properties are chosen in Init.  *)
(***************************************************************************)
EXTENDS Integers, Sequences, FiniteSets, TLC

\* ------------------------------------------------------------ constants

PC_START == 12288
UINT16_MAX == 65536

RR0 == 0
RR1 == 1
RR7 == 7
RPC == 8
RCOND == 9

OP_BR == 0
OP_ADD == 1
OP_LD == 2
OP_ST == 3
OP_JSR == 4
OP_AND == 5
OP_LDR == 6
OP_STR == 7
OP_RTI == 8
OP_NOT == 9
OP_LDI == 10
OP_STI == 11
OP_JMP == 12
OP_RES == 13
OP_LEA == 14
OP_TRAP == 15

POS == 1
ZRO == 2
NEG == 4

TRAP_GETC == 32
TRAP_OUT == 33
TRAP_PUTS == 34
TRAP_IN == 35
TRAP_PUTSP == 36
TRAP_HALT == 37

KBSR == 65024
KBDR == 65026

\* ------------------------------------------------------------ bounds

\* Fetches per run.
MaxSteps == 3
\* Bytes the keyboard delivers during a run.
MaxInput == 1
\* Bytes a loop of PUTS or PUTSP that cannot end is followed for.
MaxOut == 3

\* ------------------------------------------------------------ u16 arithmetic

Pow2(n) == 2 ^ n

\* x >> n on a u16
ShiftR(x, n) == x \div Pow2(n)

\* x & (2^n - 1): the masks 0x7, 0x1F, 0x3F, 0xFF, 0x1FF, 0x7FF of the decoder
LowBits(x, n) == x % Pow2(n)

RECURSIVE BitAnd(_, _)
BitAnd(a, b) ==
    IF a = 0 \/ b = 0 THEN 0
    ELSE (IF a % 2 = 1 /\ b % 2 = 1 THEN 1 ELSE 0) + 2 * BitAnd(a \div 2, b \div 2)

RECURSIVE BitOr(_, _)
BitOr(a, b) ==
    IF a = 0 THEN b
    ELSE IF b = 0 THEN a
    ELSE (IF a % 2 = 1 \/ b % 2 = 1 THEN 1 ELSE 0) + 2 * BitOr(a \div 2, b \div 2)

\* !x on a u16
BitNot(x) == (UINT16_MAX - 1) - x

\* The result of a u16 addition that does not abort.
Wrap(n) == n % UINT16_MAX

\* Whether the exact sum n leaves the u16 range.
Overflows(n) == n >= UINT16_MAX

\* sign_extend as the reference semantics of the instruction set has it: the value
\* of x | (0xFFFF << bit_count) when bit bit_count-1 of x is set.  Used by the
\* properties only.
SextRef(x, bit_count) ==
    IF ShiftR(x, bit_count - 1) % 2 = 1
    THEN Wrap(BitOr(x, Wrap((UINT16_MAX - 1) * Pow2(bit_count))))
    ELSE x

\* fn sign_extend: the OR is an expression statement whose value is dropped; the
\* function returns x on both paths.
sign_extend(x, bit_count) ==
    IF ShiftR(x, bit_count - 1) % 2 = 1
    THEN x
    ELSE x

\* ------------------------------------------------------------ state

VARIABLES
    reg,              \* REG: R0..R7, then PC (index 8) and COND (index 9)
    mem,              \* ALLMEMORY, as the finite map of its nonzero words
    running,          \* main's running flag, 1 or 0
    at,               \* where main is: "fetch", "exec", "in" (Trap::IN has written its
                      \* prompt and waits in read_char), "spin" (in the loop of PUTS or
                      \* PUTSP, which cannot end), "done" (the loop was left), "panic"
    instr,            \* the word the last fetch returned
    stdin,            \* bytes the keyboard has delivered and nothing has read yet
    typed,            \* bytes the keyboard has delivered so far
    out,              \* bytes written to the output stream
    overflow_checks,  \* whether the build aborts on u16 overflow
    const_memory,     \* whether ALLMEMORY is the `const` item of line 6 (stores are lost)
    const_reg,        \* whether REG is the `const` item of line 24 (stores are lost)
    steps,            \* fetches so far
    reads,            \* the addresses the last step passed to mem_read, in order
    se,               \* the last call of the function a specification applies on its
                      \* own: <<x, bit_count, result>> for sign_extend in SpecSE
    plain             \* SpecMem: what a plain store would hold after the mem_write calls so far

vars == <<reg, mem, running, at, instr, stdin, typed, out, overflow_checks, const_memory,
          const_reg, steps, reads, se, plain>>

\* ------------------------------------------------------------ memory

\* const ALLMEMORY: every word is 0
EmptyMem == [a \in {} |-> 0]

\* ALLMEMORY[a]
MemAt(m, a) == IF a \in DOMAIN m THEN m[a] ELSE 0

\* ALLMEMORY[a] = v: on the `const` item the assignment goes to a temporary copy and
\* the memory is as before; on a `static mut` the word is stored (a zero word is
\* left out of the map).
MemSet(m, a, v) ==
    IF const_memory THEN m
    ELSE IF v = 0 THEN [x \in (DOMAIN m) \ {a} |-> m[x]]
    ELSE [x \in (DOMAIN m) \cup {a} |-> IF x = a THEN v ELSE m[x]]

\* fn mem_write
mem_write(m, address, val) == MemSet(m, address, val)

\* check_key(): whether a byte is waiting (a poll that does not block)
check_key(inp) == inp # <<>>

\* mem_read without its else branch: KBSR keeps its word when no byte is waiting
mem_read_NoClear(m, inp, address) ==
    LET m1 == IF address = KBSR /\ check_key(inp)
              THEN MemSet(MemSet(m, KBSR, Pow2(15)), KBDR, Head(inp))
              ELSE m
        inp1 == IF address = KBSR /\ check_key(inp) THEN Tail(inp) ELSE inp
    IN [val |-> MemAt(m1, address), mem |-> m1, stdin |-> inp1]

\* fn mem_read: the word returned, and the memory and the input it leaves
mem_read(m, inp, address) ==
    LET m1 == IF address = KBSR
              THEN IF check_key(inp)
                   THEN MemSet(MemSet(m, KBSR, Pow2(15)), KBDR, Head(inp))
                   ELSE MemSet(m, KBSR, 0)
              ELSE m
        inp1 == IF address = KBSR /\ check_key(inp) THEN Tail(inp) ELSE inp
    IN [val |-> MemAt(m1, address), mem |-> m1, stdin |-> inp1]

\* ------------------------------------------------------------ registers

\* REG[r] = v: on the `const` item of line 24 the assignment goes to a temporary copy
\* and the register file is as before; on a `static mut` the value is stored.
RegSet(rg, r, v) == IF const_reg THEN rg ELSE [rg EXCEPT ![r] = v]

\* fn update_flags, on the register file rg
update_flags(rg, r) ==
    IF rg[r] = 0 THEN RegSet(rg, RCOND, ZRO)
    ELSE IF ShiftR(rg[r], 15) # 0 THEN RegSet(rg, RCOND, NEG)
    ELSE RegSet(rg, RCOND, POS)

\* const REG: the array's initial elements are Register::RR0 .. Register::RCOND,
\* whose discriminants are 0 .. 9
REG == [r \in 0..9 |-> r]

\* ------------------------------------------------------------ output

\* put_char(c as u8)
put_char(o, c) == Append(o, c % 256)

\* println!("HALT")
MsgHALT == <<72, 65, 76, 84, 10>>
\* println!("Unknown trap code")
MsgUnknownTrap == <<85, 110, 107, 110, 111, 119, 110, 32, 116, 114, 97, 112, 32, 99, 111, 100, 101, 10>>
\* println!("RES")
MsgRES == <<82, 69, 83, 10>>
\* println!("RTI")
MsgRTI == <<82, 84, 73, 10>>
\* print!("Enter a character: ")
MsgPrompt == <<69, 110, 116, 101, 114, 32, 97, 32, 99, 104, 97, 114, 97, 99, 116, 101, 114, 58, 32>>

\* ------------------------------------------------------------ decoder

Opcode(w) == ShiftR(w, 12)
\* (instr >> 9) & 0x7: dr, sr, cond_flag
Field9(w) == LowBits(ShiftR(w, 9), 3)
\* sr1, base_r cut with a four-bit mask
Field6_Wide(w) == LowBits(ShiftR(w, 6), 4)
\* (instr >> 6) & 0x7: sr1, base_r
Field6(w) == LowBits(ShiftR(w, 6), 3)
\* instr & 0x7: sr2
Field0(w) == LowBits(w, 3)
\* (instr >> 5) & 0x1
ImmFlag(w) == LowBits(ShiftR(w, 5), 1)
\* instr & 0xFF
TrapVect(w) == LowBits(w, 8)

\* ------------------------------------------------------------ handlers
\* Each handler is the state the match arm leaves, as a record of what it can
\* change; panic is set when a u16 addition aborted the program, and the record
\* then holds what the arm had done before it.

\* The state a handler starts from.
Cur == [reg |-> reg, mem |-> mem, stdin |-> stdin, out |-> out,
        running |-> running, reads |-> <<>>, panic |-> FALSE, spin |-> FALSE]

\* A + or += on u16 whose exact result is n aborts the program.
Aborts(n) == overflow_checks /\ Overflows(n)

Abort(s) == [s EXCEPT !.panic = TRUE]

\* The loop of PUTS or PUTSP cannot end: `REG[RR0] += 1` on the `const` REG is lost
\* and the loop reads the same nonzero word again.
Spin(s) == [s EXCEPT !.spin = TRUE]

\* Instruction::ADD
DoADD ==
    LET dr == Field9(instr)
        sr1 == Field6(instr)
        sum == IF ImmFlag(instr) = 1
               THEN reg[sr1] + sign_extend(LowBits(instr, 5), 5)
               ELSE reg[sr1] + reg[Field0(instr)]
    IN IF Aborts(sum) THEN Abort(Cur)
       ELSE [Cur EXCEPT !.reg = update_flags(RegSet(reg, dr, Wrap(sum)), dr)]

\* Instruction::AND
DoAND ==
    LET dr == Field9(instr)
        sr1 == Field6(instr)
        val == IF ImmFlag(instr) = 1
               THEN BitAnd(reg[sr1], sign_extend(LowBits(instr, 5), 5))
               ELSE BitAnd(reg[sr1], reg[Field0(instr)])
    IN [Cur EXCEPT !.reg = RegSet(reg, dr, val)]

\* Instruction::NOT
DoNOT ==
    LET dr == Field9(instr)
        sr1 == Field6(instr)
    IN [Cur EXCEPT !.reg = update_flags(RegSet(reg, dr, BitNot(reg[sr1])), dr)]

\* Instruction::BR
DoBR ==
    LET pc_offset == sign_extend(LowBits(instr, 9), 9)
        cond_flag == Field9(instr)
    IN IF BitAnd(cond_flag, reg[RCOND]) # 0
       THEN IF Aborts(reg[RPC] + pc_offset) THEN Abort(Cur)
            ELSE [Cur EXCEPT !.reg = RegSet(reg, RPC, Wrap(reg[RPC] + pc_offset))]
       ELSE Cur

\* Instruction::JMP
DoJMP ==
    LET base_r == Field6(instr)
    IN [Cur EXCEPT !.reg = RegSet(reg, RPC, reg[base_r])]

\* Instruction::JSR
DoJSR ==
    LET r7 == RegSet(reg, RR7, reg[RPC])
        flag == LowBits(ShiftR(instr, 11), 1)
        pc_offset == sign_extend(LowBits(instr, 11), 11)
    IN IF flag = 0
       THEN [Cur EXCEPT !.reg = RegSet(r7, RPC, r7[Field6(instr)])]
       ELSE IF Aborts(r7[RPC] + pc_offset) THEN Abort([Cur EXCEPT !.reg = r7])
            ELSE [Cur EXCEPT !.reg = RegSet(r7, RPC, Wrap(r7[RPC] + pc_offset))]

\* Instruction::LD
DoLD ==
    LET dr == Field9(instr)
        sum == reg[RPC] + sign_extend(LowBits(instr, 9), 9)
        r == mem_read(mem, stdin, Wrap(sum))
    IN IF Aborts(sum) THEN Abort(Cur)
       ELSE [Cur EXCEPT !.reg = update_flags(RegSet(reg, dr, r.val), dr),
                        !.mem = r.mem, !.stdin = r.stdin, !.reads = <<Wrap(sum)>>]

\* Instruction::LDI
DoLDI ==
    LET dr == Field9(instr)
        sum == reg[RPC] + sign_extend(LowBits(instr, 9), 9)
        r1 == mem_read(mem, stdin, Wrap(sum))
        r2 == mem_read(r1.mem, r1.stdin, r1.val)
    IN IF Aborts(sum) THEN Abort(Cur)
       ELSE [Cur EXCEPT !.reg = update_flags(RegSet(reg, dr, r2.val), dr),
                        !.mem = r2.mem, !.stdin = r2.stdin,
                        !.reads = <<Wrap(sum), r1.val>>]

\* Instruction::LDR
DoLDR ==
    LET dr == Field9(instr)
        sum == reg[Field6(instr)] + sign_extend(LowBits(instr, 6), 6)
        r == mem_read(mem, stdin, Wrap(sum))
    IN IF Aborts(sum) THEN Abort(Cur)
       ELSE [Cur EXCEPT !.reg = update_flags(RegSet(reg, dr, r.val), dr),
                        !.mem = r.mem, !.stdin = r.stdin, !.reads = <<Wrap(sum)>>]

\* Instruction::LEA
DoLEA ==
    LET dr == Field9(instr)
        sum == reg[RPC] + sign_extend(LowBits(instr, 9), 9)
    IN IF Aborts(sum) THEN Abort(Cur)
       ELSE [Cur EXCEPT !.reg = update_flags(RegSet(reg, dr, Wrap(sum)), dr)]

\* Instruction::ST
DoST ==
    LET sr == Field9(instr)
        sum == reg[RPC] + sign_extend(LowBits(instr, 9), 9)
    IN IF Aborts(sum) THEN Abort(Cur)
       ELSE [Cur EXCEPT !.mem = mem_write(mem, Wrap(sum), reg[sr])]

\* Instruction::STI
DoSTI ==
    LET sr == Field9(instr)
        sum == reg[RPC] + sign_extend(LowBits(instr, 9), 9)
        r == mem_read(mem, stdin, Wrap(sum))
    IN IF Aborts(sum) THEN Abort(Cur)
       ELSE [Cur EXCEPT !.mem = mem_write(r.mem, r.val, reg[sr]),
                        !.stdin = r.stdin, !.reads = <<Wrap(sum)>>]

\* Instruction::STR
DoSTR ==
    LET sr == Field9(instr)
        sum == reg[Field6(instr)] + sign_extend(LowBits(instr, 6), 6)
    IN IF Aborts(sum) THEN Abort(Cur)
       ELSE [Cur EXCEPT !.mem = mem_write(mem, Wrap(sum), reg[sr])]

\* ------------------------------------------------------------ trap routines

\* read_char(): the next byte of the input (the caller waits for one)
read_char(inp) == Head(inp)

\* Trap::GETC setting the condition flags from the byte it stored
DoGETC_SetsFlags ==
    [Cur EXCEPT !.reg = update_flags(RegSet(reg, RR0, read_char(stdin)), RR0),
                !.stdin = Tail(stdin)]

\* Trap::GETC
DoGETC ==
    [Cur EXCEPT !.reg = RegSet(reg, RR0, read_char(stdin)), !.stdin = Tail(stdin)]

\* Trap::OUT
DoOUT == [Cur EXCEPT !.out = put_char(out, reg[RR0])]

\* The while loop of Trap::PUTS, entered with the word c just read.
RECURSIVE PutsLoop(_, _)
PutsLoop(s, c) ==
    IF c = 0 THEN s
    ELSE LET o == put_char(s.out, c)
             next == s.reg[RR0] + 1
             r == mem_read(s.mem, s.stdin, Wrap(next))
         IN IF Aborts(next) THEN Abort([s EXCEPT !.out = o])
            ELSE IF const_reg THEN Spin([s EXCEPT !.out = o])
            ELSE PutsLoop([s EXCEPT !.out = o,
                                    !.reg = RegSet(s.reg, RR0, Wrap(next)),
                                    !.mem = r.mem, !.stdin = r.stdin,
                                    !.reads = Append(s.reads, Wrap(next))],
                          r.val)

\* Trap::PUTS
DoPUTS ==
    LET r == mem_read(mem, stdin, reg[RR0])
    IN PutsLoop([Cur EXCEPT !.mem = r.mem, !.stdin = r.stdin, !.reads = <<reg[RR0]>>],
                r.val)

\* Trap::IN up to its wait for the keyboard: the prompt
DoINPrompt == [Cur EXCEPT !.out = out \o MsgPrompt]

\* Trap::IN once read_char has a byte: the echo and the store to R0
DoIN ==
    LET c == read_char(stdin)
    IN [Cur EXCEPT !.out = put_char(out, c),
                   !.reg = RegSet(reg, RR0, c), !.stdin = Tail(stdin)]

\* The while loop of Trap::PUTSP, entered with the word c just read.
RECURSIVE PutspLoop(_, _)
PutspLoop(s, c) ==
    IF c = 0 THEN s
    ELSE LET c1 == LowBits(c, 8)
             c2 == ShiftR(c, 8)
             o1 == put_char(s.out, c1)
             o == IF c2 # 0 THEN put_char(o1, c2) ELSE o1
             next == s.reg[RR0] + 1
             r == mem_read(s.mem, s.stdin, Wrap(next))
         IN IF Aborts(next) THEN Abort([s EXCEPT !.out = o])
            ELSE IF const_reg THEN Spin([s EXCEPT !.out = o])
            ELSE PutspLoop([s EXCEPT !.out = o,
                                     !.reg = RegSet(s.reg, RR0, Wrap(next)),
                                     !.mem = r.mem, !.stdin = r.stdin,
                                     !.reads = Append(s.reads, Wrap(next))],
                           r.val)

\* Trap::PUTSP
DoPUTSP ==
    LET r == mem_read(mem, stdin, reg[RR0])
    IN PutspLoop([Cur EXCEPT !.mem = r.mem, !.stdin = r.stdin, !.reads = <<reg[RR0]>>],
                 r.val)

\* Trap::HALT without running = 0
DoHALT_KeepsRunning == [Cur EXCEPT !.out = out \o MsgHALT]

\* Trap::HALT
DoHALT == [Cur EXCEPT !.out = out \o MsgHALT, !.running = 0]

\* the _ arm of the trap match as a no-op
DoUnknownTrap_NoOp == Cur

\* the _ arm of the trap match
DoUnknownTrap == [Cur EXCEPT !.out = out \o MsgUnknownTrap, !.running = 0]

\* Instruction::RES
DoRES == [Cur EXCEPT !.out = out \o MsgRES, !.running = 0]

\* Instruction::RTI
DoRTI == [Cur EXCEPT !.out = out \o MsgRTI, !.running = 0]

TrapCodes == {TRAP_GETC, TRAP_OUT, TRAP_PUTS, TRAP_IN, TRAP_PUTSP, TRAP_HALT}

\* ------------------------------------------------------------ inputs
\* The words, register files and memory the handlers are applied to.

\* An instruction word from its opcode and its low 12 bits.
Word(op, low) == op * Pow2(12) + low

DataBase == PC_START + 16
Str1 == PC_START + 32
Str2 == PC_START + 40
FarWord == PC_START + 3 + 510
FarWord2 == PC_START + 3 + 511

Data ==
    [a \in {DataBase, DataBase + 1, DataBase + 2, DataBase + 3, DataBase + 4,
            DataBase + 5, DataBase + 6, DataBase + 8, DataBase + 9, DataBase + 10,
            Str1, Str1 + 1, Str1 + 3,
            Str2, Str2 + 1,
            FarWord, FarWord2,
            KBSR - 2, KBSR - 1, KBSR,
            UINT16_MAX - 1, 0} |->
        CASE a = DataBase -> Str1
          [] a = DataBase + 1 -> KBSR - 1
          [] a = DataBase + 2 -> UINT16_MAX - 1
          [] a = DataBase + 3 -> KBSR
          [] a = DataBase + 4 -> Pow2(15)
          [] a = DataBase + 5 -> 5
          [] a = DataBase + 6 -> 1
          [] a = DataBase + 8 -> Pow2(15) - 1
          [] a = DataBase + 9 -> Str2
          [] a = DataBase + 10 -> KBSR - 2
          [] a = Str1 -> 72
          [] a = Str1 + 1 -> 73
          [] a = Str1 + 3 -> 88
          [] a = Str2 -> 73 * 256 + 72
          [] a = Str2 + 1 -> 74
          [] a = FarWord -> DataBase + 4
          [] a = FarWord2 -> 4660
          [] a = KBSR - 2 -> Word(OP_STI, 1 * 512 + 1)
          [] a = KBSR - 1 -> 72
          [] a = KBSR -> 73
          [] a = UINT16_MAX - 1 -> Word(OP_TRAP, TRAP_HALT)
          [] a = 0 -> 73]

\* The values of R0 and of R1 a handler is entered with.
R0s == {Str1, Str2, KBSR - 2, KBSR - 1, KBSR, Pow2(15), UINT16_MAX - 1}
R1s == {0, 1, 5, Pow2(15), UINT16_MAX - 1}

\* The values of COND a handler is entered with: the one REG starts with, and the
\* three flags.
Conds == {REG[RCOND], POS, ZRO, NEG}

\* The register files a handler is entered with: the word being executed was fetched
\* at PC_START + 2.
RegFiles ==
    {[REG EXCEPT ![RR0] = r0, ![RR1] = r1, ![RPC] = PC_START + 3, ![RCOND] = c] :
        r0 \in R0s, r1 \in R1s, c \in Conds}

\* The instruction words the handlers are applied to.
Pool ==
    {Word(OP_ADD, 2 * 512 + 0 * 64 + 1),          \* ADD R2, R0, R1
     Word(OP_ADD, 0 * 512 + 1 * 64 + 32 + 29),    \* ADD R0, R1, #-3
     Word(OP_ADD, 2 * 512 + 1 * 64 + 32 + 1),     \* ADD R2, R1, #1
     Word(OP_ADD, 2 * 512 + 1 * 64 + 32 + 31),    \* ADD R2, R1, #-1
     Word(OP_AND, 2 * 512 + 0 * 64 + 1),          \* AND R2, R0, R1
     Word(OP_AND, 2 * 512 + 0 * 64 + 32 + 31),    \* AND R2, R0, #-1
     Word(OP_NOT, 2 * 512 + 0 * 64 + 63),         \* NOT R2, R0
     Word(OP_NOT, 2 * 512 + 1 * 64 + 63),         \* NOT R2, R1
     Word(OP_BR, 7 * 512 + 2),                    \* BRnzp +2
     Word(OP_BR, 7 * 512 + 510),                  \* BRnzp -2
     Word(OP_BR, 4 * 512 + 2),                    \* BRn +2
     Word(OP_BR, 2 * 512 + 510),                  \* BRz -2
     Word(OP_BR, 1 * 512 + 2),                    \* BRp +2
     Word(OP_JMP, 0 * 64),                        \* JMP R0
     Word(OP_JMP, 7 * 64),                        \* JMP R7
     Word(OP_JSR, 2048 + 2),                      \* JSR +2
     Word(OP_JSR, 2048 + 2046),                   \* JSR -2
     Word(OP_JSR, 0 * 64),                        \* JSRR R0
     Word(OP_JSR, 7 * 64),                        \* JSRR R7
     Word(OP_LD, 2 * 512 + 13 + 4),               \* LD R2, DataBase + 4
     Word(OP_LD, 2 * 512 + 13 + 7),               \* LD R2, DataBase + 7
     Word(OP_LD, 2 * 512 + 511),                  \* LD R2, #-1
     Word(OP_LDI, 2 * 512 + 13),                  \* LDI R2, DataBase
     Word(OP_LDI, 2 * 512 + 13 + 3),              \* LDI R2, DataBase + 3
     Word(OP_LDI, 2 * 512 + 510),                 \* LDI R2, #-2
     Word(OP_LDR, 2 * 512 + 0 * 64 + 0),          \* LDR R2, R0, #0
     Word(OP_LDR, 2 * 512 + 0 * 64 + 1),          \* LDR R2, R0, #1
     Word(OP_LDR, 2 * 512 + 0 * 64 + 63),         \* LDR R2, R0, #-1
     Word(OP_LEA, 2 * 512 + 5),                   \* LEA R2, +5
     Word(OP_LEA, 2 * 512 + 511),                 \* LEA R2, #-1
     Word(OP_ST, 1 * 512 + 13 + 7),               \* ST R1, DataBase + 7
     Word(OP_ST, 1 * 512 + 511),                  \* ST R1, #-1
     Word(OP_STI, 1 * 512 + 13),                  \* STI R1, DataBase
     Word(OP_STI, 1 * 512 + 13 + 3),              \* STI R1, DataBase + 3
     Word(OP_STR, 1 * 512 + 0 * 64 + 1),          \* STR R1, R0, #1
     Word(OP_STR, 1 * 512 + 0 * 64 + 63),         \* STR R1, R0, #-1
     Word(OP_TRAP, TRAP_GETC),
     Word(OP_TRAP, TRAP_OUT),
     Word(OP_TRAP, TRAP_PUTS),
     Word(OP_TRAP, TRAP_IN),
     Word(OP_TRAP, TRAP_PUTSP),
     Word(OP_TRAP, TRAP_HALT),
     Word(OP_TRAP, TRAP_HALT + 1),                \* TRAP x26
     Word(OP_TRAP, 0),                            \* TRAP x00
     Word(OP_RTI, 0),
     Word(OP_RES, 0)}

\* The bytes the keyboard can deliver.
Keys == {97}

\* ------------------------------------------------------------ the run loop

\* main up to its loop: nothing calls read_image, the memory is all zero.
Init ==
    /\ const_reg \in BOOLEAN
    /\ reg = RegSet(REG, RPC, PC_START)
    /\ mem = EmptyMem
    /\ running = 1
    /\ at = "fetch"
    /\ instr = 0
    /\ stdin = <<>>
    /\ typed = 0
    /\ out = <<>>
    /\ overflow_checks \in BOOLEAN
    /\ const_memory \in BOOLEAN
    /\ steps = 0
    /\ reads = <<>>
    /\ se = <<>>
    /\ plain = EmptyMem

\* A handler's result becomes the state; the loop then tests running.
Apply(r) ==
    /\ reg' = r.reg
    /\ mem' = r.mem
    /\ stdin' = r.stdin
    /\ out' = r.out
    /\ running' = r.running
    /\ reads' = r.reads
    /\ at' = IF r.panic THEN "panic"
             ELSE IF r.spin THEN "spin"
             ELSE IF r.running = 1 THEN "fetch" ELSE "done"
    /\ UNCHANGED <<instr, typed, overflow_checks, const_memory, const_reg, steps, se, plain>>

\* let instr = mem_read(REG[RPC]); REG[RPC] += 1;
Fetch ==
    /\ at = "fetch"
    /\ steps < MaxSteps
    /\ LET r == mem_read(mem, stdin, reg[RPC])
       IN /\ instr' = r.val
          /\ mem' = r.mem
          /\ stdin' = r.stdin
          /\ reads' = <<reg[RPC]>>
          /\ IF Aborts(reg[RPC] + 1)
             THEN reg' = reg /\ at' = "panic"
             ELSE reg' = RegSet(reg, RPC, Wrap(reg[RPC] + 1)) /\ at' = "exec"
    /\ steps' = steps + 1
    /\ UNCHANGED <<running, typed, out, overflow_checks, const_memory, const_reg, se, plain>>

Executing(op) == at = "exec" /\ Opcode(instr) = op

Trapping(code) == Executing(OP_TRAP) /\ TrapVect(instr) = code

ExecADD == Executing(OP_ADD) /\ Apply(DoADD)
ExecAND == Executing(OP_AND) /\ Apply(DoAND)
ExecNOT == Executing(OP_NOT) /\ Apply(DoNOT)
ExecBR == Executing(OP_BR) /\ Apply(DoBR)
ExecJMP == Executing(OP_JMP) /\ Apply(DoJMP)
ExecJSR == Executing(OP_JSR) /\ Apply(DoJSR)
ExecLD == Executing(OP_LD) /\ Apply(DoLD)
ExecLDI == Executing(OP_LDI) /\ Apply(DoLDI)
ExecLDR == Executing(OP_LDR) /\ Apply(DoLDR)
ExecLEA == Executing(OP_LEA) /\ Apply(DoLEA)
ExecST == Executing(OP_ST) /\ Apply(DoST)
ExecSTI == Executing(OP_STI) /\ Apply(DoSTI)
ExecSTR == Executing(OP_STR) /\ Apply(DoSTR)
ExecRES == Executing(OP_RES) /\ Apply(DoRES)
ExecRTI == Executing(OP_RTI) /\ Apply(DoRTI)

\* GETC waits in read_char until a byte has arrived.
TrapGETC == Trapping(TRAP_GETC) /\ stdin # <<>> /\ Apply(DoGETC)
TrapOUT == Trapping(TRAP_OUT) /\ Apply(DoOUT)
TrapPUTS == Trapping(TRAP_PUTS) /\ Apply(DoPUTS)
\* IN writes its prompt, then waits in read_char until a byte has arrived.
TrapINPrompt ==
    /\ Trapping(TRAP_IN)
    /\ out' = DoINPrompt.out
    /\ at' = "in"
    /\ reads' = <<>>
    /\ UNCHANGED <<reg, mem, running, instr, stdin, typed, overflow_checks, const_memory, const_reg,
                   steps, se, plain>>
TrapIN == at = "in" /\ stdin # <<>> /\ Apply(DoIN)
TrapPUTSP == Trapping(TRAP_PUTSP) /\ Apply(DoPUTSP)
TrapHALT == Trapping(TRAP_HALT) /\ Apply(DoHALT)
\* One more pass of a loop of PUTS or PUTSP that cannot end: the same word is read
\* and written out again.
TrapSpin ==
    /\ at = "spin"
    /\ Len(out) < MaxOut
    /\ Apply(IF TrapVect(instr) = TRAP_PUTS THEN DoPUTS ELSE DoPUTSP)
TrapUnknown ==
    /\ Executing(OP_TRAP)
    /\ TrapVect(instr) \notin TrapCodes
    /\ Apply(DoUnknownTrap)

\* The keyboard delivers a byte.
KeyArrives ==
    /\ typed < MaxInput
    /\ at \in {"fetch", "exec", "in"}
    /\ \E k \in Keys : stdin' = Append(stdin, k)
    /\ typed' = typed + 1
    /\ UNCHANGED <<reg, mem, running, at, instr, out, overflow_checks, const_memory, const_reg, steps, reads, se, plain>>

Step ==
    \/ Fetch
    \/ ExecADD
    \/ ExecAND
    \/ ExecNOT
    \/ ExecBR
    \/ ExecJMP
    \/ ExecJSR
    \/ ExecLD
    \/ ExecLDI
    \/ ExecLDR
    \/ ExecLEA
    \/ ExecST
    \/ ExecSTI
    \/ ExecSTR
    \/ ExecRES
    \/ ExecRTI
    \/ TrapGETC
    \/ TrapOUT
    \/ TrapPUTS
    \/ TrapINPrompt
    \/ TrapIN
    \/ TrapPUTSP
    \/ TrapHALT
    \/ TrapSpin
    \/ TrapUnknown

Next == Step \/ KeyArrives

Spec == Init /\ [][Next]_vars

\* ------------------------------------------------------------ the handlers alone
\* The body of the loop entered after the fetch, with any word of Pool as the word
\* fetched and any register file of RegFiles; the loop then goes on from there.  A
\* `const` memory is all zero and a `static mut` memory holds Data; a `const` REG
\* reads as its initial elements.
InitExec ==
    /\ const_reg \in BOOLEAN
    /\ reg \in IF const_reg THEN {REG} ELSE RegFiles
    /\ overflow_checks \in BOOLEAN
    /\ const_memory \in BOOLEAN
    /\ mem = IF const_memory THEN EmptyMem ELSE Data
    /\ running = 1
    /\ at = "exec"
    /\ instr \in Pool
    /\ stdin = <<>>
    /\ typed = 0
    /\ out = <<>>
    /\ steps = 0
    /\ reads = <<>>
    /\ se = <<>>
    /\ plain = EmptyMem

SpecExec == InitExec /\ [][Next]_vars

\* ------------------------------------------------------------ sign_extend alone
\* The decoder's four calls of sign_extend, on every field value: bit_count is 5
\* (imm5), 6 (offset6), 9 (pc_offset9) or 11 (pc_offset11).

BitCounts == {5, 6, 9, 11}

InitSE ==
    /\ reg = [REG EXCEPT ![RPC] = PC_START]
    /\ mem = EmptyMem
    /\ running = 1
    /\ at = "fetch"
    /\ instr = 0
    /\ stdin = <<>>
    /\ typed = 0
    /\ out = <<>>
    /\ overflow_checks = FALSE
    /\ const_memory = FALSE
    /\ const_reg = FALSE
    /\ steps = 0
    /\ reads = <<>>
    /\ se = <<>>
    /\ plain = EmptyMem

SignExtendCall ==
    /\ \E bit_count \in BitCounts :
         \E x \in 0..(Pow2(bit_count) - 1) :
            se' = <<x, bit_count, sign_extend(x, bit_count)>>
    /\ UNCHANGED <<reg, mem, running, at, instr, stdin, typed, out, overflow_checks, const_memory, const_reg,
                   steps, reads, plain>>

NextSE == SignExtendCall

SpecSE == InitSE /\ [][NextSE]_vars

\* ------------------------------------------------------------ properties

\* The flag the instruction set gives a 16-bit value.
FlagOf(v) == IF v = 0 THEN ZRO ELSE IF v >= Pow2(15) THEN NEG ELSE POS

\* A step of a handler: it ran to its end or aborted, or, for Trap::IN, it wrote the
\* prompt or it took the byte.
Executed == at \in {"exec", "in"} /\ at' # at

\* The handler ran to its end.
Completed == Executed /\ at' # "panic"

\* R0..R7 are the same in both register files.
SameGeneral(rg1, rg2) == \A r \in RR0..RR7 : rg1[r] = rg2[r]

\* C1: sign_extend(x, bit_count), for bit_count in {5, 6, 9, 11} and 0 <= x <
\* 2^bit_count, is (x | (0xFFFF << bit_count)) mod 2^16 when bit bit_count-1 of x is
\* set and x otherwise; sign_extend(0b10001, 5) = 0xFFF1.
C1_SignExtend ==
    se # <<>> =>
        /\ se[3] = SextRef(se[1], se[2])
        /\ (se[1] = 17 /\ se[2] = 5) => se[3] = 65521

\* C2: an ADD that runs to its end leaves dr = (sr1 + operand) mod 2^16, the operand
\* being the 5-bit immediate sign-extended to 16 bits when bit 5 is set and sr2
\* otherwise; with R1 = 5, ADD R0, R1, #-3 leaves R0 = 2.
C2_Add ==
    [][(ExecADD /\ Completed) =>
          LET operand == IF ImmFlag(instr) = 1
                         THEN SextRef(LowBits(instr, 5), 5)
                         ELSE reg[Field0(instr)]
          IN reg'[Field9(instr)] = Wrap(reg[Field6(instr)] + operand)]_vars

\* C3: in every state of the run, the initial one included, COND is exactly one of
\* NEG, ZRO, POS.
C3_CondIsOneFlag == reg[RCOND] \in {NEG, ZRO, POS}

\* The opcodes whose handlers call update_flags, as C4 lists them.
FlagOps == {OP_ADD, OP_NOT, OP_LD, OP_LDI, OP_LDR, OP_LEA}

\* C4: after ADD, NOT, LD, LDI, LDR or LEA has run to its end, COND is the flag of
\* the value now in dr: ZRO for 0, NEG when bit 15 is set, POS otherwise.
C4_FlagsFollowWrite ==
    [][(Completed /\ Opcode(instr) \in FlagOps) =>
          reg'[RCOND] = FlagOf(reg'[Field9(instr)])]_vars

\* C5: a BR fetched at a (so PC = a + 1 when it executes) leaves PC =
\* (a + 1 + sign-extended pc_offset9) mod 2^16 when cond_flag & COND # 0 and PC = a + 1
\* otherwise, and changes no general register, COND or memory word.
C5_Branch ==
    [][(ExecBR /\ Completed) =>
          LET off == SextRef(LowBits(instr, 9), 9)
              taken == BitAnd(Field9(instr), reg[RCOND]) # 0
          IN /\ reg'[RPC] = IF taken THEN Wrap(reg[RPC] + off) ELSE reg[RPC]
             /\ SameGeneral(reg', reg)
             /\ reg'[RCOND] = reg[RCOND]
             /\ mem' = mem]_vars

\* C6: when memory[A] = B and memory[B] = V, A and B are not KBSR, and A is
\* (PC + sign-extended pc_offset9) mod 2^16, an LDI that runs to its end leaves
\* dr = V and COND the flag of V.
C6_LdiRoundTrip ==
    [][(ExecLDI /\ Completed) =>
          LET A == Wrap(reg[RPC] + SextRef(LowBits(instr, 9), 9))
              B == MemAt(mem, A)
              V == MemAt(mem, B)
          IN (A # KBSR /\ B # KBSR) =>
                /\ reg'[Field9(instr)] = V
                /\ reg'[RCOND] = FlagOf(V)]_vars

\* The nonzero words stored from address a up to the first zero word.
RECURSIVE RunFrom(_, _)
RunFrom(m, a) ==
    IF MemAt(m, a) = 0 THEN <<>>
    ELSE <<MemAt(m, a)>> \o RunFrom(m, Wrap(a + 1))

\* C7: TRAP PUTS with R0 at a run of n nonzero words and a zero word (none of them
\* the keyboard status register) emits the n low bytes in address order, reads
\* exactly those n + 1 words, and ends with the run loop going on.
C7_Puts ==
    [][TrapPUTS =>
          LET run == RunFrom(mem, reg[RR0])
              n == Len(run)
              addrs == [i \in 1..(n + 1) |-> Wrap(reg[RR0] + i - 1)]
          IN (\A i \in 1..(n + 1) : addrs[i] # KBSR) =>
                /\ at' = "fetch"
                /\ out' = out \o [i \in 1..n |-> run[i] % 256]
                /\ reads' = addrs]_vars

\* C8: TRAP PUTS and TRAP PUTSP leave R0 as it was.
C8_R0Kept == [][(TrapPUTS \/ TrapPUTSP) => reg'[RR0] = reg[RR0]]_vars

\* C9: TRAP HALT clears the running flag, and once the flag is clear there is no
\* further fetch or execute: PC, the registers, COND, the memory and the output
\* stay as they are.
C9_HaltStops ==
    [][/\ TrapHALT => running' = 0
       /\ running = 0 =>
            /\ running' = 0
            /\ reg' = reg
            /\ mem' = mem
            /\ out' = out
            /\ steps' = steps
            /\ at' = at]_vars

\* TRAP HALT has executed and the loop was left.
C9_Witness ==
    /\ at = "done"
    /\ running = 0
    /\ Opcode(instr) = OP_TRAP
    /\ TrapVect(instr) = TRAP_HALT

\* RTI, RES, TRAP HALT and a TRAP with a vector outside 0x20..0x25.
Terminal(w) ==
    \/ Opcode(w) \in {OP_RTI, OP_RES}
    \/ Opcode(w) = OP_TRAP /\ TrapVect(w) \notin TRAP_GETC..(TRAP_HALT - 1)

\* C10: executing a terminal instruction clears the running flag and changes no
\* general register, COND or memory word; executing any other instruction leaves
\* the running flag set.
C10_StopsOnTerminal ==
    [][Executed =>
          IF Terminal(instr)
          THEN /\ running' = 0
               /\ SameGeneral(reg', reg)
               /\ reg'[RCOND] = reg[RCOND]
               /\ mem' = mem
          ELSE running' = 1]_vars

\* A TRAP with an unknown vector has executed and stopped the loop.
C10_Witness ==
    /\ at = "done"
    /\ running = 0
    /\ Opcode(instr) = OP_TRAP
    /\ TrapVect(instr) \notin TrapCodes
    /\ Len(out) >= Len(MsgUnknownTrap)

\* ------------------------------------------------------------ the memory alone
\* mem_write and mem_read called in any order on the zeroed memory, with the
\* keyboard delivering bytes in between.  se is <<"write", address, val>> or
\* <<"read", address, word returned>>.

MemAddrs == {KBSR, KBDR, PC_START}
MemVals == {0, 5, Pow2(15)}

\* What a plain store would hold after v was written to a: the map p with word a
\* replaced by v.
Written(p, a, v) ==
    IF v = 0 THEN [x \in (DOMAIN p) \ {a} |-> p[x]]
    ELSE [x \in (DOMAIN p) \cup {a} |-> IF x = a THEN v ELSE p[x]]

InitMem ==
    /\ reg = [REG EXCEPT ![RPC] = PC_START]
    /\ mem = EmptyMem
    /\ running = 1
    /\ at = "fetch"
    /\ instr = 0
    /\ stdin = <<>>
    /\ typed = 0
    /\ out = <<>>
    /\ overflow_checks = FALSE
    /\ const_memory \in BOOLEAN
    /\ const_reg = FALSE
    /\ steps = 0
    /\ reads = <<>>
    /\ se = <<>>
    /\ plain = EmptyMem

MemWriteCall ==
    /\ \E address \in MemAddrs :
         \E val \in MemVals :
            /\ mem' = mem_write(mem, address, val)
            /\ plain' = Written(plain, address, val)
            /\ se' = <<"write", address, val>>
    /\ UNCHANGED <<reg, running, at, instr, stdin, typed, out, overflow_checks, const_memory, const_reg, steps, reads>>

MemReadCall ==
    /\ \E address \in MemAddrs :
         LET r == mem_read(mem, stdin, address)
         IN /\ mem' = r.mem
            /\ stdin' = r.stdin
            /\ se' = <<"read", address, r.val>>
    /\ UNCHANGED <<reg, running, at, instr, typed, out, overflow_checks, const_memory, const_reg, steps, reads, plain>>

NextMem == MemWriteCall \/ MemReadCall \/ KeyArrives

SpecMem == InitMem /\ [][NextMem]_vars

\* Every word but those of the set skip is the same in m1 and m2.
SameExcept(m1, m2, skip) ==
    \A a \in ((DOMAIN m1) \cup (DOMAIN m2)) \ skip : MemAt(m1, a) = MemAt(m2, a)

\* C11: a read of KBSR while no byte is waiting stores 0 in KBSR and returns 0,
\* consumes no input, and leaves KBDR and every other word as it was, however many
\* times it is repeated.
C11_PollWithoutInput ==
    [][(MemReadCall /\ se'[2] = KBSR /\ stdin = <<>>) =>
          /\ se'[3] = 0
          /\ MemAt(mem', KBSR) = 0
          /\ stdin' = <<>>
          /\ SameExcept(mem, mem', {KBSR})]_vars

\* With no byte ever delivered, a poll has replaced a nonzero word written to KBSR by
\* 0 and returned 0, and KBDR still holds the nonzero word written to it.
C11_Witness ==
    /\ se = <<"read", KBSR, 0>>
    /\ typed = 0
    /\ MemAt(plain, KBSR) # 0
    /\ MemAt(mem, KBSR) = 0
    /\ MemAt(mem, KBDR) # 0

\* C12 as stated: mem_write(a, v) changes only word a, for every a; mem_read(a) for
\* every a other than KBSR returns the last value written to a (0 if never written),
\* changes no word and consumes no input.
C12_AsStated ==
    [][/\ MemWriteCall => /\ MemAt(mem', se'[2]) = se'[3]
                          /\ SameExcept(mem, mem', {se'[2]})
                          /\ stdin' = stdin
       /\ (MemReadCall /\ se'[2] # KBSR) => /\ se'[3] = MemAt(plain, se'[2])
                                            /\ mem' = mem
                                            /\ stdin' = stdin]_vars

\* The opcodes whose handlers add an offset to PC or to a base register.
AddrOps == {OP_BR, OP_JSR, OP_LD, OP_LDI, OP_LEA, OP_ST, OP_STI, OP_LDR, OP_STR}

\* C13: PC and address arithmetic wraps modulo 2^16 and never aborts the run: a
\* fetch leaves PC = (PC + 1) mod 2^16, so 0 after a fetch at 0xFFFF, and neither a
\* fetch nor BR, JSR, LD, LDI, LEA, ST, STI, LDR, STR ends in an overflow abort.
C13_WrapsNeverAborts ==
    [][/\ Fetch => reg'[RPC] = Wrap(reg[RPC] + 1)
       /\ (Fetch \/ (Executed /\ Opcode(instr) \in AddrOps)) => at' # "panic"]_vars

\* C14: AND leaves dr = sr1 & operand, the operand being the sign-extended imm5 when
\* bit 5 is set and sr2 otherwise, and leaves COND as it was.
C14_And ==
    [][ExecAND =>
          LET operand == IF ImmFlag(instr) = 1
                         THEN SextRef(LowBits(instr, 5), 5)
                         ELSE reg[Field0(instr)]
          IN /\ reg'[Field9(instr)] = BitAnd(reg[Field6(instr)], operand)
             /\ reg'[RCOND] = reg[RCOND]]_vars

\* ------------------------------------------------------------ the image loader
\* read_image_file on a byte stream, called on the zeroed memory.  UINT16_MAX is
\* taken as the number the source writes, 65536.  Line 117 puts UINT16_MAX - origin
\* in a u16: for origin 0 the value 65536 does not fit, and a build either cuts it
\* to 16 bits (max_read is 0) or aborts there.  se is <<"load", bytes>>.

\* Bytes an image file is made of.
ImageBytes == {0, 1, 127, 128, 255}
\* Longest image file, in bytes.
MaxImageLen == 6

\* file.read_u16::<LittleEndian>() succeeds
CanReadU16(bytes) == Len(bytes) >= 2
\* the word file.read_u16::<LittleEndian>() returns
ReadU16(bytes) == bytes[1] + 256 * bytes[2]
\* the stream after file.read_u16::<LittleEndian>()
AfterU16(bytes) == SubSeq(bytes, 3, Len(bytes))

\* The while loop of read_image_file: the buffer it fills, or panic when unwrap()
\* meets the end of the stream.
RECURSIVE LoadLoop(_, _, _, _)
LoadLoop(read, max_read, bytes, buffer) ==
    IF read < max_read
    THEN IF CanReadU16(bytes)
         THEN LoadLoop(read + 1, max_read, AfterU16(bytes), Append(buffer, ReadU16(bytes)))
         ELSE [panic |-> TRUE, buffer |-> buffer]
    ELSE [panic |-> FALSE, buffer |-> buffer]

\* ALLMEMORY[origin..buffer_size].copy_from_slice(&buffer[0..buffer_size]), once the
\* two slices exist and have the same length
RECURSIVE CopyFrom(_, _, _, _)
CopyFrom(m, at0, buffer, i) ==
    IF i > Len(buffer) THEN m
    ELSE CopyFrom(MemSet(m, at0 + i - 1, buffer[i]), at0, buffer, i + 1)

\* fn read_image_file: the memory it leaves, or panic; cut says whether the build
\* cuts the value of line 117 to 16 bits
read_image_file(m, bytes, cut) ==
    IF ~CanReadU16(bytes) THEN [panic |-> TRUE, mem |-> m]
    ELSE LET origin == ReadU16(bytes)
             max_read == Wrap(UINT16_MAX - origin)
             l == LoadLoop(origin, max_read, AfterU16(bytes), <<>>)
             buffer_size == Len(l.buffer)
         IN IF Overflows(UINT16_MAX - origin) /\ ~cut THEN [panic |-> TRUE, mem |-> m]
            ELSE IF l.panic THEN [panic |-> TRUE, mem |-> m]
            \* the range origin..buffer_size starts after its end
            ELSE IF origin > buffer_size THEN [panic |-> TRUE, mem |-> m]
            \* copy_from_slice: destination and source differ in length
            ELSE IF buffer_size - origin # buffer_size THEN [panic |-> TRUE, mem |-> m]
            ELSE [panic |-> FALSE, mem |-> CopyFrom(m, origin, l.buffer, 1)]

RECURSIVE ByteSeqs(_)
ByteSeqs(n) ==
    IF n = 0 THEN {<<>>}
    ELSE LET shorter == ByteSeqs(n - 1)
         IN shorter \cup {Append(b, x) : b \in {q \in shorter : Len(q) = n - 1},
                                        x \in ImageBytes}

InitLoad ==
    /\ reg = REG
    /\ mem = EmptyMem
    /\ running = 1
    /\ at = "load"
    /\ instr = 0
    /\ stdin = <<>>
    /\ typed = 0
    /\ out = <<>>
    /\ overflow_checks = FALSE
    /\ const_memory \in BOOLEAN
    /\ const_reg = FALSE
    /\ steps = 0
    /\ reads = <<>>
    /\ se = <<>>
    /\ plain = EmptyMem

LoadImage ==
    /\ at = "load"
    /\ \E bytes \in ByteSeqs(MaxImageLen), cut \in BOOLEAN :
         LET r == read_image_file(mem, bytes, cut)
         IN /\ mem' = r.mem
            /\ at' = IF r.panic THEN "panic" ELSE "fetch"
            /\ se' = <<"load", bytes>>
    /\ UNCHANGED <<reg, running, instr, stdin, typed, out, overflow_checks, const_memory, const_reg, steps, reads, plain>>

NextLoad == LoadImage

SpecLoad == InitLoad /\ [][NextLoad]_vars

\* C15: given an origin and a stream of k words, the loader stores word i of the
\* stream at origin + i for every i with origin + i <= 65535, writes nowhere else,
\* and reaches no error or panic state, whether the stream is shorter or longer than
\* the space from origin to 65535.
C15_Loader ==
    (se # <<>> /\ Len(se[2]) >= 2 /\ Len(se[2]) % 2 = 0) =>
        LET bytes == se[2]
            origin == bytes[1] + 256 * bytes[2]
            k == (Len(bytes) \div 2) - 1
            word(i) == bytes[2 * i + 3] + 256 * bytes[2 * i + 4]
            stored == {origin + i : i \in 0..(k - 1)} \cap 0..(UINT16_MAX - 1)
        IN /\ at # "panic"
           /\ \A a \in stored : MemAt(mem, a) = word(a - origin)
           /\ \A a \in DOMAIN mem : a \in stored

\* C16: a JSR fetched at a (so PC = a + 1 when it executes) that runs to its end
\* leaves R7 = a + 1 and then PC = the value of base_r (read after R7 was set, so
\* a + 1 for base_r = R7) when bit 11 is 0, or PC = (a + 1 + sign-extended
\* pc_offset11) mod 2^16 when bit 11 is 1; COND and the memory are unchanged.
C16_Jsr ==
    [][(ExecJSR /\ Completed) =>
          LET base_r == Field6(instr)
              target == IF LowBits(ShiftR(instr, 11), 1) = 0
                        THEN IF base_r = RR7 THEN reg[RPC] ELSE reg[base_r]
                        ELSE Wrap(reg[RPC] + SextRef(LowBits(instr, 11), 11))
          IN /\ reg'[RR7] = reg[RPC]
             /\ reg'[RPC] = target
             /\ reg'[RCOND] = reg[RCOND]
             /\ mem' = mem]_vars

\* The addresses the sequence q holds.
Range(q) == {q[i] : i \in 1..Len(q)}

\* C17: a read of KBSR while a byte is waiting stores 0x8000 in KBSR and that byte in
\* KBDR, takes the byte off the input and returns 0x8000, whether the read is an
\* instruction fetch at PC = 0xFE00, the read of LD or LDR, either read of LDI, the
\* read of STI, or a read made by PUTS or PUTSP walking over 0xFE00.
C17_PollWithInput ==
    [][(/\ stdin # <<>>
        /\ Fetch \/ Completed
        /\ KBSR \in Range(reads')) =>
          /\ stdin' = Tail(stdin)
          /\ MemAt(mem', KBSR) = Pow2(15)
          /\ MemAt(mem', KBDR) = Head(stdin)
          /\ Fetch => instr' = Pow2(15)
          /\ (Completed /\ Opcode(instr) \in {OP_LD, OP_LDR}) =>
                reg'[Field9(instr)] = Pow2(15)
          /\ (Completed /\ Opcode(instr) = OP_LDI) =>
                IF reads'[2] = KBSR THEN reg'[Field9(instr)] = Pow2(15)
                ELSE reads'[2] = Pow2(15)
          /\ (Completed /\ Opcode(instr) = OP_STI) =>
                MemAt(mem', Pow2(15)) = reg[Field9(instr)]]_vars

\* The bytes PUTSP owes for a run of packed words: per word the low byte, then the
\* high byte when it is not zero.
RECURSIVE PackedBytes(_)
PackedBytes(run) ==
    IF run = <<>> THEN <<>>
    ELSE LET c == Head(run)
             two == IF ShiftR(c, 8) # 0 THEN <<c % 256, ShiftR(c, 8)>> ELSE <<c % 256>>
         IN two \o PackedBytes(Tail(run))

\* C18: TRAP PUTSP walks the words from the address in R0 up to the first zero word,
\* emits per word the low byte and then the high byte when it is not zero, in address
\* order, emits nothing after the zero word, and the run loop goes on (runs holding
\* the keyboard status register are left out: reading it rewrites it).
C18_Putsp ==
    [][TrapPUTSP =>
          LET run == RunFrom(mem, reg[RR0])
              n == Len(run)
              addrs == [i \in 1..(n + 1) |-> Wrap(reg[RR0] + i - 1)]
          IN (\A i \in 1..(n + 1) : addrs[i] # KBSR) =>
                /\ at' = "fetch"
                /\ out' = out \o PackedBytes(run)
                /\ reads' = addrs]_vars

\* The opcodes whose handlers call update_flags.
FlagWriters == {OP_ADD, OP_AND, OP_NOT, OP_LD, OP_LDI, OP_LDR, OP_LEA}

\* C19: an instruction outside ADD, AND, NOT, LD, LDI, LDR, LEA (BR, JMP, JSR, ST,
\* STI, STR, RTI, RES and every trap routine, GETC and IN included) leaves COND as it
\* was before the instruction.
C19_CondKept ==
    [][(Executed /\ Opcode(instr) \notin FlagWriters) =>
          reg'[RCOND] = reg[RCOND]]_vars

\* GETC has stored a positive byte in R0 while COND still says zero, as it did when
\* the trap was entered.
C19_Witness ==
    /\ at = "fetch"
    /\ instr = Word(OP_TRAP, TRAP_GETC)
    /\ reg[RR0] \in Keys
    /\ reg[RCOND] = ZRO

\* ------------------------------------------------------------ the decoder alone
\* The register indices the arm of the word w decodes as dr, sr, sr1, sr2 or base_r
\* and uses to index REG. BR's cond_flag is a mask, not an index; TRAP, RES and RTI
\* decode no register.
OperandRegs(w) ==
    LET op == Opcode(w)
    IN IF op \in {OP_ADD, OP_AND}
       THEN {Field9(w), Field6(w)} \cup (IF ImmFlag(w) = 1 THEN {} ELSE {Field0(w)})
       ELSE IF op \in {OP_NOT, OP_LDR, OP_STR} THEN {Field9(w), Field6(w)}
       ELSE IF op = OP_JMP THEN {Field6(w)}
       ELSE IF op = OP_JSR
       THEN IF LowBits(ShiftR(w, 11), 1) = 0 THEN {Field6(w)} ELSE {}
       ELSE IF op \in {OP_LD, OP_LDI, OP_LEA, OP_ST, OP_STI} THEN {Field9(w)}
       ELSE {}

\* Any of the 65536 words may be the one fetched.
InitDec ==
    /\ reg = [REG EXCEPT ![RPC] = PC_START]
    /\ mem = EmptyMem
    /\ running = 1
    /\ at = "exec"
    /\ instr \in 0..(UINT16_MAX - 1)
    /\ stdin = <<>>
    /\ typed = 0
    /\ out = <<>>
    /\ overflow_checks = FALSE
    /\ const_memory = FALSE
    /\ const_reg = FALSE
    /\ steps = 0
    /\ reads = <<>>
    /\ se = <<>>
    /\ plain = EmptyMem

DecodeCall ==
    /\ se = <<>>
    /\ se' = <<instr, OperandRegs(instr)>>
    /\ UNCHANGED <<reg, mem, running, at, instr, stdin, typed, out, overflow_checks, const_memory, const_reg,
                   steps, reads, plain>>

NextDec == DecodeCall

SpecDec == InitDec /\ [][NextDec]_vars

\* C20: for every one of the 65536 instruction words, each register index the
\* executor uses as dr, sr, sr1, sr2 or base_r is in 0..7, so none is PC or COND and
\* none is outside REG.
C20_OperandsInRange ==
    se # <<>> => \A r \in se[2] : r \in RR0..RR7 /\ r \notin {RPC, RCOND}

\* STR with every operand bit set has been decoded: both indices are 7.
C20_Witness ==
    /\ se # <<>>
    /\ se[1] = Word(OP_STR, 4095)
    /\ se[2] = {RR7}

====
